---- MODULE Spec2Model ----
(***************************************************************************)
(* Model of the LSM303 accelerometer / magnetometer driver                 *)
(* (src/LSM303/LSM303.cpp): device and SA0 resolution in init, register    *)
(* routing in readReg / writeReg, the polling burst reads readAcc and      *)
(* readMag with their timeout, the decoding of a burst into the sample     *)
(* vectors, and the integer stage of heading.                              *)
(*                                                                         *)
(* The driver is single threaded.  A public method runs to completion      *)
(* before the next one is entered; the only place where the driver waits   *)
(* for its environment is the polling loop of readAcc / readMag, so that   *)
(* loop is the only method split into several steps (pc).                  *)
(* last_status is written by the driver and never read by it; it is left   *)
(* out of the state.                                                       *)
(***************************************************************************)
EXTENDS Integers, Sequences, FiniteSets, TLC

VARIABLES
  _device,       \* LSM303::_device
  acc_address,   \* LSM303::acc_address
  mag_address,   \* LSM303::mag_address
  out_m,         \* which table out_x_l_m .. out_z_h_m were loaded from
  io_timeout,    \* LSM303::io_timeout
  did_timeout,   \* LSM303::did_timeout
  a,             \* LSM303::a, accelerometer sample <<x, y, z>>
  m,             \* LSM303::m, magnetometer sample <<x, y, z>>
  m_min,         \* LSM303::m_min
  m_max,         \* LSM303::m_max
  bus,           \* environment: what a probe of <<address, register>> answers
  burst,         \* environment: the 6 bytes the device sends for a burst read
  avail,         \* environment: Wire.available()
  millis,        \* environment: (unsigned int)millis()
  millis_start,  \* local of readAcc / readMag
  seen,          \* the polling loop has evaluated millis() at this clock value
  pc,            \* "idle", or the read whose polling loop is running
  call,          \* the public method entered last, its arguments and outcome
  tx,            \* the last bus transaction started by that method, if any
  hd             \* the 32-bit integer expressions heading evaluated last

vars == <<_device, acc_address, mag_address, out_m, io_timeout, did_timeout,
          a, m, m_min, m_max, bus, burst, avail, millis, millis_start, seen,
          pc, call, tx, hd>>

----------------------------------------------------------------------------
(* Bounds of the model *)

\* width in bits of the model's unsigned int (16 on AVR, 32 elsewhere)
WordBits == 2

----------------------------------------------------------------------------
(* Constants of LSM303.cpp *)

D_SA0_HIGH_ADDRESS == 29
D_SA0_LOW_ADDRESS == 30
NON_D_MAG_ADDRESS == 30
NON_D_ACC_SA0_LOW_ADDRESS == 24
NON_D_ACC_SA0_HIGH_ADDRESS == 25
TEST_REG_NACK == -1
D_WHO_ID == 73
DLM_WHO_ID == 60

(* Register identifiers of enum regAddr (LSM303.h) *)

WHO_AM_I == 15
CTRL_REG1_A == 32
CTRL5 == 36
MR_REG_M == 2
OUT_X_L_A == 40
TEMP_OUT_H_M == 49
TEMP_OUT_L_M == 50
\* dummy identifiers, translated by readMagReg
OUT_X_H_M == -1
OUT_X_L_M == -2

DeviceTypes == {"device_DLH", "device_DLM", "device_DLHC", "device_D", "device_auto"}
Sa0States == {"sa0_low", "sa0_high", "sa0_auto"}

\* the probes init can issue
Probes == {<<D_SA0_HIGH_ADDRESS, WHO_AM_I>>, <<D_SA0_LOW_ADDRESS, WHO_AM_I>>,
           <<NON_D_ACC_SA0_HIGH_ADDRESS, CTRL_REG1_A>>,
           <<NON_D_ACC_SA0_LOW_ADDRESS, CTRL_REG1_A>>}

\* what a probe can answer: no byte, either identification byte, another byte
Responses == {TEST_REG_NACK, D_WHO_ID, DLM_WHO_ID, 39}

UIntMod == 2 ^ WordBits
UIntMax == UIntMod - 1

NoCall == [op |-> "constructor", device |-> "-", sa0 |-> "-", r_device |-> "-",
           r_sa0 |-> "-", reg |-> 0, path |-> "-", ret |-> FALSE, val |-> 0,
           prev |-> <<0, 0, 0>>, was |-> FALSE]
NoTx == [addr |-> 0, reg |-> 0, xlat |-> "-", kind |-> "-", value |-> 0,
         msb |-> FALSE]
NoHd == [mid |-> <<0, 0, 0>>, temp_m |-> <<0, 0, 0>>,
         prod |-> <<0, 0, 0, 0, 0, 0>>, E |-> <<0, 0, 0>>,
         ovf |-> <<FALSE, FALSE, FALSE>>]

----------------------------------------------------------------------------
(* init *)

testReg(address, reg) == bus[<<address, reg>>]

\* ResolveDevice with the two guesses of lines 82-93 exchanged
ResolveDevice_guessSwapped(device, sa0) ==
  IF device = "device_auto"
  THEN IF testReg(D_SA0_HIGH_ADDRESS, WHO_AM_I) = D_WHO_ID
       THEN [ok |-> TRUE, device |-> "device_D", sa0 |-> "sa0_high",
             last |-> D_SA0_HIGH_ADDRESS]
       ELSE IF testReg(D_SA0_LOW_ADDRESS, WHO_AM_I) = D_WHO_ID
       THEN [ok |-> TRUE, device |-> "device_D", sa0 |-> "sa0_low",
             last |-> D_SA0_LOW_ADDRESS]
       ELSE IF testReg(D_SA0_LOW_ADDRESS, WHO_AM_I) = DLM_WHO_ID
       THEN [ok |-> TRUE, device |-> "device_DLM", sa0 |-> sa0,
             last |-> D_SA0_LOW_ADDRESS]
       ELSE IF testReg(NON_D_ACC_SA0_LOW_ADDRESS, CTRL_REG1_A) # TEST_REG_NACK
       THEN [ok |-> TRUE, device |-> "device_DLH", sa0 |-> "sa0_low",
             last |-> NON_D_ACC_SA0_LOW_ADDRESS]
       ELSE IF testReg(NON_D_ACC_SA0_HIGH_ADDRESS, CTRL_REG1_A) # TEST_REG_NACK
       THEN [ok |-> TRUE, device |-> "device_DLHC", sa0 |-> "sa0_high",
             last |-> NON_D_ACC_SA0_HIGH_ADDRESS]
       ELSE [ok |-> FALSE, device |-> device, sa0 |-> sa0,
             last |-> NON_D_ACC_SA0_HIGH_ADDRESS]
  ELSE [ok |-> TRUE, device |-> device, sa0 |-> sa0, last |-> 0]

\* lines 55-99: determine device type if necessary; last is the address of
\* the last probe made, 0 if none was made
ResolveDevice(device, sa0) ==
  IF device = "device_auto"
  THEN IF testReg(D_SA0_HIGH_ADDRESS, WHO_AM_I) = D_WHO_ID
       THEN [ok |-> TRUE, device |-> "device_D", sa0 |-> "sa0_high",
             last |-> D_SA0_HIGH_ADDRESS]
       ELSE IF testReg(D_SA0_LOW_ADDRESS, WHO_AM_I) = D_WHO_ID
       THEN [ok |-> TRUE, device |-> "device_D", sa0 |-> "sa0_low",
             last |-> D_SA0_LOW_ADDRESS]
       ELSE IF testReg(D_SA0_LOW_ADDRESS, WHO_AM_I) = DLM_WHO_ID
       THEN [ok |-> TRUE, device |-> "device_DLM", sa0 |-> sa0,
             last |-> D_SA0_LOW_ADDRESS]
       ELSE IF testReg(NON_D_ACC_SA0_HIGH_ADDRESS, CTRL_REG1_A) # TEST_REG_NACK
       THEN [ok |-> TRUE, device |-> "device_DLHC", sa0 |-> "sa0_high",
             last |-> NON_D_ACC_SA0_HIGH_ADDRESS]
       ELSE IF testReg(NON_D_ACC_SA0_LOW_ADDRESS, CTRL_REG1_A) # TEST_REG_NACK
       THEN [ok |-> TRUE, device |-> "device_DLH", sa0 |-> "sa0_low",
             last |-> NON_D_ACC_SA0_LOW_ADDRESS]
       ELSE [ok |-> FALSE, device |-> device, sa0 |-> sa0,
             last |-> NON_D_ACC_SA0_LOW_ADDRESS]
  ELSE [ok |-> TRUE, device |-> device, sa0 |-> sa0, last |-> 0]

\* lines 101-136: determine SA0 if necessary
ResolveSa0(device, sa0, last) ==
  IF sa0 = "sa0_auto"
  THEN IF device = "device_D"
       THEN IF testReg(D_SA0_HIGH_ADDRESS, WHO_AM_I) = D_WHO_ID
            THEN [ok |-> TRUE, device |-> device, sa0 |-> "sa0_high",
                  last |-> D_SA0_HIGH_ADDRESS]
            ELSE IF testReg(D_SA0_HIGH_ADDRESS, WHO_AM_I) = D_WHO_ID
            THEN [ok |-> TRUE, device |-> device, sa0 |-> "sa0_low",
                  last |-> D_SA0_HIGH_ADDRESS]
            ELSE [ok |-> FALSE, device |-> device, sa0 |-> sa0,
                  last |-> D_SA0_HIGH_ADDRESS]
       ELSE IF device \in {"device_DLM", "device_DLH"}
       THEN IF testReg(NON_D_ACC_SA0_HIGH_ADDRESS, CTRL_REG1_A) # TEST_REG_NACK
            THEN [ok |-> TRUE, device |-> device, sa0 |-> "sa0_high",
                  last |-> NON_D_ACC_SA0_HIGH_ADDRESS]
            ELSE IF testReg(NON_D_ACC_SA0_LOW_ADDRESS, CTRL_REG1_A) # TEST_REG_NACK
            THEN [ok |-> TRUE, device |-> device, sa0 |-> "sa0_low",
                  last |-> NON_D_ACC_SA0_LOW_ADDRESS]
            ELSE [ok |-> FALSE, device |-> device, sa0 |-> sa0,
                  last |-> NON_D_ACC_SA0_LOW_ADDRESS]
       ELSE [ok |-> TRUE, device |-> device, sa0 |-> sa0, last |-> last]
  ELSE [ok |-> TRUE, device |-> device, sa0 |-> sa0, last |-> last]

\* lines 141-185: the accelerometer address the switch assigns
AccAddressFor(device, sa0) ==
  CASE device = "device_D" ->
         IF sa0 = "sa0_high" THEN D_SA0_HIGH_ADDRESS ELSE D_SA0_LOW_ADDRESS
    [] device = "device_DLHC" -> NON_D_ACC_SA0_HIGH_ADDRESS
    [] OTHER ->
         IF sa0 = "sa0_high" THEN NON_D_ACC_SA0_HIGH_ADDRESS
                             ELSE NON_D_ACC_SA0_LOW_ADDRESS

\* lines 141-185: the magnetometer address the switch assigns
MagAddressFor(device, sa0) ==
  IF device = "device_D"
  THEN IF sa0 = "sa0_high" THEN D_SA0_HIGH_ADDRESS ELSE D_SA0_LOW_ADDRESS
  ELSE NON_D_MAG_ADDRESS

\* lines 141-185: the table out_x_l_m .. out_z_h_m are loaded from
LayoutFor(device) ==
  CASE device = "device_D" -> "D_OUT"
    [] device = "device_DLHC" -> "DLHC_OUT"
    [] device = "device_DLM" -> "DLM_OUT"
    [] OTHER -> "DLH_OUT"

\* what the caller receives when control reaches the closing brace of init
\* (line 186) without a return statement: the value is indeterminate
EndOfInitValues == BOOLEAN

init(device, sa0) ==
  /\ pc = "idle"
  /\ LET r1 == ResolveDevice(device, sa0)
         r2 == IF r1.ok THEN ResolveSa0(r1.device, r1.sa0, r1.last) ELSE r1
         done == [NoCall EXCEPT !.op = "init", !.device = device,
                    !.sa0 = sa0, !.r_device = r2.device, !.r_sa0 = r2.sa0]
     IN /\ IF ~r2.ok
           THEN /\ call' = [done EXCEPT !.path = "return_false",
                                        !.ret = FALSE]
                /\ UNCHANGED <<_device, acc_address, mag_address, out_m>>
           ELSE /\ _device' = r2.device
                /\ acc_address' = AccAddressFor(r2.device, r2.sa0)
                /\ mag_address' = MagAddressFor(r2.device, r2.sa0)
                /\ out_m' = LayoutFor(r2.device)
                /\ \E rv \in EndOfInitValues :
                     call' = [done EXCEPT !.path = "end", !.ret = rv]
        /\ tx' = IF r2.last = 0 THEN NoTx
                 ELSE [NoTx EXCEPT
                         !.addr = r2.last, !.kind = "testReg",
                         !.reg = IF r2.last \in {D_SA0_HIGH_ADDRESS,
                                                 D_SA0_LOW_ADDRESS}
                                 THEN WHO_AM_I ELSE CTRL_REG1_A]
  /\ UNCHANGED <<io_timeout, did_timeout, a, m, m_min, m_max, bus, burst,
                 avail, millis, millis_start, seen, pc, hd>>

----------------------------------------------------------------------------
(* timeout accessors *)

timeoutOccurred ==
  /\ pc = "idle"
  /\ call' = [NoCall EXCEPT !.op = "timeoutOccurred", !.ret = did_timeout]
  /\ tx' = NoTx
  /\ UNCHANGED <<_device, acc_address, mag_address, out_m, io_timeout,
                 did_timeout, a, m, m_min, m_max, bus, burst, avail, millis,
                 millis_start, seen, pc, hd>>

setTimeout(timeout) ==
  /\ pc = "idle"
  /\ io_timeout' = timeout
  /\ call' = [NoCall EXCEPT !.op = "setTimeout", !.val = timeout]
  /\ tx' = NoTx
  /\ UNCHANGED <<_device, acc_address, mag_address, out_m, did_timeout, a, m,
                 m_min, m_max, bus, burst, avail, millis, millis_start, seen,
                 pc, hd>>

getTimeout ==
  /\ pc = "idle"
  /\ call' = [NoCall EXCEPT !.op = "getTimeout", !.val = io_timeout]
  /\ tx' = NoTx
  /\ UNCHANGED <<_device, acc_address, mag_address, out_m, io_timeout,
                 did_timeout, a, m, m_min, m_max, bus, burst, avail, millis,
                 millis_start, seen, pc, hd>>

----------------------------------------------------------------------------
(* register access *)

\* the registers and values the register operations are exercised with
Regs == {MR_REG_M, CTRL_REG1_A, OUT_X_L_A, TEMP_OUT_H_M, TEMP_OUT_L_M,
         OUT_X_H_M}
Values == {0, 39}

\* the transaction of writeAccReg / readAccReg
AccRegTx(kind, reg, value) ==
  [addr |-> acc_address, reg |-> reg, xlat |-> "-", kind |-> kind,
   value |-> value, msb |-> FALSE]

\* the transaction of writeMagReg
WriteMagRegTx(reg, value) ==
  [addr |-> mag_address, reg |-> reg, xlat |-> "-", kind |-> "writeMagReg",
   value |-> value, msb |-> FALSE]

\* the transaction of readMagReg: a dummy register (reg < 0) is replaced by
\* the translated out_*_m register
ReadMagRegTx(reg) ==
  [addr |-> mag_address, reg |-> reg,
   xlat |-> IF reg < 0 THEN out_m ELSE "-", kind |-> "readMagReg",
   value |-> 0, msb |-> FALSE]

\* the condition of lines 303 and 317; its last operand is the constant
\* TEMP_OUT_L_M itself, converted to bool
RoutesToMag(reg) ==
  \/ _device = "device_D"
  \/ reg < CTRL_REG1_A
  \/ reg = TEMP_OUT_H_M
  \/ TEMP_OUT_L_M # 0

RegUnchanged ==
  UNCHANGED <<_device, acc_address, mag_address, out_m, io_timeout,
              did_timeout, a, m, m_min, m_max, bus, burst, avail, millis,
              millis_start, seen, pc, hd>>

writeReg(reg, value) ==
  /\ pc = "idle"
  /\ tx' = IF RoutesToMag(reg) THEN WriteMagRegTx(reg, value)
                               ELSE AccRegTx("writeAccReg", reg, value)
  /\ call' = [NoCall EXCEPT !.op = "writeReg", !.reg = reg, !.val = value]
  /\ RegUnchanged

readReg(reg) ==
  /\ pc = "idle"
  /\ tx' = IF RoutesToMag(reg) THEN ReadMagRegTx(reg)
                               ELSE AccRegTx("readAccReg", reg, 0)
  /\ call' = [NoCall EXCEPT !.op = "readReg", !.reg = reg]
  /\ RegUnchanged

\* the last of the register writes enableDefault makes
enableDefault ==
  /\ pc = "idle"
  /\ tx' = IF _device = "device_D" THEN WriteMagRegTx(CTRL5, 112)
                                   ELSE WriteMagRegTx(MR_REG_M, 0)
  /\ call' = [NoCall EXCEPT !.op = "enableDefault"]
  /\ RegUnchanged

----------------------------------------------------------------------------
(* decoding of a burst *)

\* (int16_t)u for a 16-bit pattern u
ToInt16(u) == IF u >= 32768 THEN u - 65536 ELSE u

\* (int16_t)(high << 8 | low)
Combine(high, low) == ToInt16(high * 256 + low)

\* ShiftRight4 as a logical shift: zeros fill the top 4 bits
ShiftRight4_logical(v) ==
  LET u == IF v < 0 THEN v + 65536 ELSE v
  IN u \div 16

\* v >>= 4 on an int16_t, as GCC compiles it (comment of lines 358-361):
\* the 16-bit pattern moves right by 4 and the sign bit fills the top 4 bits
ShiftRight4(v) ==
  LET u == IF v < 0 THEN v + 65536 ELSE v
      r == u \div 16
  IN ToInt16(IF u >= 32768 THEN r + 61440 ELSE r)

\* lines 347-367, b[1] .. b[6] being the bytes in the order Wire.read()
\* returns them
DecodeAcc(device, b) ==
  LET x == Combine(b[2], b[1])
      y == Combine(b[4], b[3])
      z == Combine(b[6], b[5])
  IN IF device # "device_D"
     THEN <<ShiftRight4(x), ShiftRight4(y), ShiftRight4(z)>>
     ELSE <<x, y, z>>

\* DecodeMag reading Y before Z on every variant but the D
DecodeMag_sameOrder(device, b) ==
  IF device = "device_D"
  THEN <<Combine(b[2], b[1]), Combine(b[4], b[3]), Combine(b[6], b[5])>>
  ELSE <<Combine(b[1], b[2]), Combine(b[3], b[4]), Combine(b[5], b[6])>>

\* lines 390-429
DecodeMag(device, b) ==
  IF device = "device_D"
  THEN <<Combine(b[2], b[1]), Combine(b[4], b[3]), Combine(b[6], b[5])>>
  ELSE IF device = "device_DLH"
  THEN <<Combine(b[1], b[2]), Combine(b[3], b[4]), Combine(b[5], b[6])>>
  ELSE <<Combine(b[1], b[2]), Combine(b[5], b[6]), Combine(b[3], b[4])>>

----------------------------------------------------------------------------
(* readAcc and readMag *)

Reads == {"readAcc", "readMag"}

\* FlagAtRequest when the flag is not cleared before the loop
FlagAtRequest_stale == did_timeout

\* the value written to did_timeout before the polling loop (lines 338, 381)
FlagAtRequest == FALSE

\* LoopWaiting when the loop waits for the first byte only
LoopWaiting_firstByte == avail < 1

\* the loop condition Wire.available() < 6 (lines 339, 382)
LoopWaiting == avail < 6

\* the condition of lines 340 and 383, an unsigned int subtraction
TimedOut ==
  /\ io_timeout > 0
  /\ ((millis - millis_start) % UIntMod) > io_timeout

\* the six Wire.read() results: a byte of the burst while one is buffered,
\* (byte)(-1) once the buffer is empty
RxBytes == [i \in 1..6 |-> IF i <= avail THEN burst[i] ELSE 255]

\* lines 330-338 and 373-381: the burst request, up to the loop
Request(t) ==
  /\ pc = "idle"
  /\ pc' = t
  /\ tx' = IF t = "readAcc"
           THEN [addr |-> acc_address, reg |-> OUT_X_L_A, xlat |-> "-",
                 kind |-> "burst", value |-> 0, msb |-> TRUE]
           ELSE [addr |-> mag_address,
                 reg |-> IF _device = "device_D" THEN OUT_X_L_M ELSE OUT_X_H_M,
                 xlat |-> out_m, kind |-> "burst", value |-> 0,
                 msb |-> (_device = "device_D")]
  /\ \E n \in 0..6 : avail' = n
  /\ millis_start' = millis
  /\ seen' = FALSE
  /\ did_timeout' = FlagAtRequest
  /\ call' = [NoCall EXCEPT !.op = t, !.path = "polling",
                            !.prev = IF t = "readAcc" THEN a ELSE m,
                            !.was = did_timeout]
  /\ UNCHANGED <<_device, acc_address, mag_address, out_m, io_timeout, a, m,
                 m_min, m_max, bus, burst, millis, hd>>

\* one evaluation of the loop that does not leave it through line 347 / 390:
\* either the timeout return of lines 341-344 / 384-387, or another turn
Poll(t) ==
  /\ pc = t
  /\ LoopWaiting
  /\ IF TimedOut
     THEN /\ did_timeout' = TRUE
          /\ pc' = "idle"
          /\ call' = [call EXCEPT !.path = "timeout"]
          /\ millis_start' = 0
          /\ avail' = 0
          /\ seen' = FALSE
     ELSE /\ ~seen
          /\ seen' = TRUE
          /\ UNCHANGED <<did_timeout, pc, call, millis_start, avail>>
  /\ UNCHANGED <<_device, acc_address, mag_address, out_m, io_timeout, a, m,
                 m_min, m_max, bus, burst, millis, tx, hd>>

\* lines 347-367 and 390-429: the loop is left with the bytes buffered
Finish(t) ==
  /\ pc = t
  /\ ~LoopWaiting
  /\ IF t = "readAcc"
     THEN a' = DecodeAcc(_device, RxBytes) /\ m' = m
     ELSE m' = DecodeMag(_device, RxBytes) /\ a' = a
  /\ pc' = "idle"
  /\ call' = [call EXCEPT !.path = "complete"]
  /\ millis_start' = 0
  /\ avail' = 0
  /\ seen' = FALSE
  /\ UNCHANGED <<_device, acc_address, mag_address, out_m, io_timeout,
                 did_timeout, m_min, m_max, bus, burst, millis, tx, hd>>

readAccRequest == Request("readAcc")
readAccPoll == Poll("readAcc")
readAccFinish == Finish("readAcc")
readMagRequest == Request("readMag")
readMagPoll == Poll("readMag")
readMagFinish == Finish("readMag")

\* environment: one more byte of the requested burst arrives
WireReceive ==
  /\ pc \in Reads
  /\ avail < 6
  /\ avail' = avail + 1
  /\ UNCHANGED <<_device, acc_address, mag_address, out_m, io_timeout,
                 did_timeout, a, m, m_min, m_max, bus, burst, millis,
                 millis_start, seen, pc, call, tx, hd>>

\* environment: the millisecond clock advances, wrapping at the width of
\* unsigned int.  One turn of the polling loop takes far less than a
\* millisecond, so while a read polls, every clock value is evaluated by the
\* loop at least once before the next one is reached.
Tick ==
  /\ pc = "idle" \/ seen
  /\ millis' = (millis + 1) % UIntMod
  /\ seen' = FALSE
  /\ UNCHANGED <<_device, acc_address, mag_address, out_m, io_timeout,
                 did_timeout, a, m, m_min, m_max, bus, burst, avail,
                 millis_start, pc, call, tx, hd>>

----------------------------------------------------------------------------
(* heading, integer stage *)

\* s / 2 in C: the quotient is truncated towards zero
Half(s) == IF s >= 0 THEN s \div 2 ELSE -((-s) \div 2)

\* lines 462-464: ((int32_t)min + max) / 2
Midpoint(lo, hi) == Half(lo + hi)

\* lines 482-484: the six products, in the order they are written
CrossProducts(u, v) ==
  <<u[2] * v[3], u[3] * v[2], u[3] * v[1], u[1] * v[3], u[1] * v[2],
    u[2] * v[1]>>

Int32Max == 2147483647
Int32Min == -Int32Max - 1
Int32 == Int32Min..Int32Max

\* p - q leaves int32_t (both operands are in it)
DifferenceOverflows(p, q) ==
  \/ p >= 0 /\ q < 0 /\ p > Int32Max + q
  \/ p < 0 /\ q > 0 /\ p < Int32Min + q

\* p - q in int32_t; past the range the behaviour is undefined and the value
\* recorded is the wrapped one
Difference(p, q) ==
  IF p >= 0 /\ q < 0 /\ p > Int32Max + q
  THEN (((p - Int32Max) - q) - Int32Max) - 2
  ELSE IF p < 0 /\ q > 0 /\ p < Int32Min + q
  THEN (((p - Int32Min) - q) - Int32Min)
  ELSE p - q

\* lines 482-484: the three differences, as int32_t expressions before the
\* conversion to float
CrossDifferences(p) ==
  <<Difference(p[1], p[2]), Difference(p[3], p[4]), Difference(p[5], p[6])>>

\* lines 482-484: which of the three differences leave int32_t
CrossOverflows(p) ==
  <<DifferenceOverflows(p[1], p[2]), DifferenceOverflows(p[3], p[4]),
    DifferenceOverflows(p[5], p[6])>>

\* lines 459-469: every int32_t expression heading evaluates (the floating
\* point stage that follows changes no state)
heading ==
  /\ pc = "idle"
  /\ LET mid == <<Midpoint(m_min[1], m_max[1]), Midpoint(m_min[2], m_max[2]),
                  Midpoint(m_min[3], m_max[3])>>
         temp_m == <<m[1] - mid[1], m[2] - mid[2], m[3] - mid[3]>>
         prod == CrossProducts(temp_m, a)
     IN hd' = [mid |-> mid, temp_m |-> temp_m, prod |-> prod,
               E |-> CrossDifferences(prod), ovf |-> CrossOverflows(prod)]
  /\ call' = [NoCall EXCEPT !.op = "heading"]
  /\ tx' = NoTx
  /\ UNCHANGED <<_device, acc_address, mag_address, out_m, io_timeout,
                 did_timeout, a, m, m_min, m_max, bus, burst, avail, millis,
                 millis_start, seen, pc>>


----------------------------------------------------------------------------
(* Initial states and specifications *)

\* lines 26-27
DefaultCalibration ==
  /\ m_max = <<32767, 32767, 32767>>
  /\ m_min = <<-32767, -32767, -32767>>

\* lines 31-32
DefaultTimeout ==
  /\ io_timeout = 0
  /\ did_timeout = FALSE

\* lines 22-33
Constructed ==
  /\ DefaultCalibration
  /\ _device = "device_auto"
  /\ DefaultTimeout

\* the constructor leaves acc_address, mag_address, a and m unset; their
\* first values are whatever the storage of the object held
UnsetAddresses == {0, NON_D_MAG_ADDRESS}
UnsetVectors == {<<0, 0, 0>>, <<-3, 5, 258>>}

\* no method entered, nothing on the bus yet
Quiet ==
  /\ avail = 0
  /\ millis = 0
  /\ millis_start = 0
  /\ seen = FALSE
  /\ pc = "idle"
  /\ call = NoCall
  /\ tx = NoTx
  /\ hd = NoHd

\* the object as init(device, sa0) leaves it when it resolves
Resolved(device, sa0) ==
  /\ _device = device
  /\ acc_address = AccAddressFor(device, sa0)
  /\ mag_address = MagAddressFor(device, sa0)
  /\ out_m = LayoutFor(device)

Variants == {"device_DLH", "device_DLM", "device_DLHC", "device_D"}

\* a burst whose six bytes differ from each other and from 255
OneBurst == <<241, 128, 16, 127, 3, 2>>

\* nothing answers on the bus
DeadBus == [p \in Probes |-> TEST_REG_NACK]

(* Resolution and register routing: every scripted bus *)
Init ==
  /\ Constructed
  /\ out_m = "unset"
  /\ acc_address \in UnsetAddresses
  /\ mag_address \in UnsetAddresses
  /\ a = <<0, 0, 0>>
  /\ m = <<0, 0, 0>>
  /\ bus \in [Probes -> Responses]
  /\ burst = OneBurst
  /\ Quiet

Next ==
  \/ \E device \in DeviceTypes, sa0 \in Sa0States : init(device, sa0)
  \/ \E reg \in Regs, value \in Values : writeReg(reg, value)
  \/ \E reg \in Regs : readReg(reg)
  \/ enableDefault

Spec == Init /\ [][Next]_vars

(* Burst reads against the clock: a D with SA0 high, or a DLHC, attached *)
ReadBuses ==
  {[DeadBus EXCEPT ![<<D_SA0_HIGH_ADDRESS, WHO_AM_I>>] = D_WHO_ID],
   [DeadBus EXCEPT ![<<NON_D_ACC_SA0_HIGH_ADDRESS, CTRL_REG1_A>>] = 39]}

InitRead ==
  /\ Constructed
  /\ out_m = "unset"
  /\ acc_address = 0
  /\ mag_address = 0
  /\ a \in UnsetVectors
  /\ m \in UnsetVectors
  /\ bus \in ReadBuses
  /\ burst = OneBurst
  /\ Quiet

NextRead ==
  \/ \E sa0 \in Sa0States : init("device_auto", sa0)
  \/ \E timeout \in 0..UIntMax : setTimeout(timeout)
  \/ getTimeout
  \/ timeoutOccurred
  \/ \E reg \in Regs, value \in Values : writeReg(reg, value)
  \/ \E reg \in Regs : readReg(reg)
  \/ readAccRequest
  \/ readAccPoll
  \/ readAccFinish
  \/ readMagRequest
  \/ readMagPoll
  \/ readMagFinish
  \/ WireReceive
  \/ Tick

SpecRead == InitRead /\ [][NextRead]_vars

\* the clock keeps advancing and a read that is polling keeps running
SpecReadFair ==
  /\ InitRead
  /\ [][NextRead]_vars
  /\ WF_vars(Tick)
  /\ WF_vars(readAccPoll)
  /\ WF_vars(readAccFinish)
  /\ WF_vars(readMagPoll)
  /\ WF_vars(readMagFinish)

(* Decoding: an initialised driver of every variant, every sampled burst *)
ByteSamples == {15, 128, 255}
Bursts == [1..6 -> ByteSamples]

InitDecode ==
  /\ DefaultCalibration
  /\ DefaultTimeout
  /\ \E device \in Variants : Resolved(device, "sa0_high")
  /\ a = <<0, 0, 0>>
  /\ m = <<0, 0, 0>>
  /\ bus = DeadBus
  /\ burst \in Bursts
  /\ Quiet

NextDecode ==
  \/ readAccRequest
  \/ readAccPoll
  \/ readAccFinish
  \/ readMagRequest
  \/ readMagPoll
  \/ readMagFinish
  \/ WireReceive

SpecDecode == InitDecode /\ [][NextDecode]_vars

(* heading: samples and calibration bounds at the ends of int16_t *)
Int16Samples == {-32768, 0, 32767}
SampleVectors == [1..3 -> Int16Samples]
CalSamples == {-32768, 32767}
CalVectors == [1..3 -> CalSamples]

InitHeading ==
  /\ DefaultTimeout
  /\ Resolved("device_D", "sa0_high")
  /\ m_min \in {<<-32767, -32767, -32767>>} \cup CalVectors
  /\ m_max \in {<<32767, 32767, 32767>>} \cup CalVectors
  /\ a \in SampleVectors
  /\ m \in SampleVectors
  /\ bus = DeadBus
  /\ burst = OneBurst
  /\ Quiet

NextHeading == heading

SpecHeading == InitHeading /\ [][NextHeading]_vars

----------------------------------------------------------------------------
(* Properties *)

ProbeHigh == bus[<<D_SA0_HIGH_ADDRESS, WHO_AM_I>>]
ProbeLow == bus[<<D_SA0_LOW_ADDRESS, WHO_AM_I>>]
ProbeAccHigh == bus[<<NON_D_ACC_SA0_HIGH_ADDRESS, CTRL_REG1_A>>]
ProbeAccLow == bus[<<NON_D_ACC_SA0_LOW_ADDRESS, CTRL_REG1_A>>]

\* init has resolved device and sa0 and fixed the addresses and the layout
ResolvedAs(device, sa0, acc, mag) ==
  /\ call.path = "end"
  /\ call.r_device = device
  /\ call.r_sa0 = sa0
  /\ _device = device
  /\ acc_address = acc
  /\ mag_address = mag
  /\ out_m = LayoutFor(device)

\* the sample a read of t writes
Target(t) == IF t = "readAcc" THEN a ELSE m

\* the sample a read of t decodes from the whole burst
FullSample(t) ==
  IF t = "readAcc" THEN DecodeAcc(_device, burst) ELSE DecodeMag(_device, burst)

\* C1: a readAcc / readMag that returned through the timeout had
\* io_timeout > 0, left its sample vector (a, m) as it was when the call was
\* entered and set the timeout flag; and at no time during or after a read is
\* the sample vector a mixture: it is the vector from before the call or the
\* vector decoded from all six bytes of the burst.
C1_TimeoutLeavesSample ==
  \A t \in Reads :
    call.op = t =>
      /\ call.path = "timeout" =>
           /\ io_timeout > 0
           /\ Target(t) = call.prev
           /\ did_timeout
      /\ \/ Target(t) = call.prev
         \/ Target(t) = FullSample(t)

C1_Witness ==
  /\ call.op = "readAcc"
  /\ call.path = "timeout"
  /\ pc = "idle"
  /\ did_timeout
  /\ a = call.prev
  /\ a # DecodeAcc(_device, burst)

\* C2: when a readAcc / readMag has returned, the timeout flag is TRUE
\* exactly if that read returned through the timeout, whatever the flag was
\* before; and a step of any other method leaves the flag as it was.
C2_FlagFollowsLastRead ==
  /\ [](\A t \in Reads :
          (call.op = t /\ pc = "idle") =>
             (did_timeout <=> call.path = "timeout"))
  /\ [][call'.op \notin Reads => did_timeout' = did_timeout]_vars

C2_Witness ==
  /\ call.op \in Reads
  /\ pc = "idle"
  /\ call.path = "complete"
  /\ call.was
  /\ ~did_timeout

\* C3: after init(device_auto, _): the D identification byte at the unified
\* strap-high address gives (device_D, sa0_high) whatever the other addresses
\* answer; otherwise the D byte at the unified strap-low address gives
\* (device_D, sa0_low); otherwise, when the strap-low address answers neither
\* identification byte, any answer at the strap-high accelerometer address
\* gives (device_DLHC, sa0_high), else any answer at the strap-low
\* accelerometer address gives (device_DLH, sa0_low), else init returns false.
C3_AutoResolution ==
  (call.op = "init" /\ call.device = "device_auto") =>
    /\ ProbeHigh = D_WHO_ID =>
         ResolvedAs("device_D", "sa0_high", D_SA0_HIGH_ADDRESS,
                    D_SA0_HIGH_ADDRESS)
    /\ (ProbeHigh # D_WHO_ID /\ ProbeLow = D_WHO_ID) =>
         ResolvedAs("device_D", "sa0_low", D_SA0_LOW_ADDRESS,
                    D_SA0_LOW_ADDRESS)
    /\ (ProbeHigh # D_WHO_ID /\ ProbeLow \notin {D_WHO_ID, DLM_WHO_ID}) =>
         /\ ProbeAccHigh # TEST_REG_NACK =>
              ResolvedAs("device_DLHC", "sa0_high",
                         NON_D_ACC_SA0_HIGH_ADDRESS, NON_D_MAG_ADDRESS)
         /\ (ProbeAccHigh = TEST_REG_NACK /\ ProbeAccLow # TEST_REG_NACK) =>
              ResolvedAs("device_DLH", "sa0_low",
                         NON_D_ACC_SA0_LOW_ADDRESS, NON_D_MAG_ADDRESS)
         /\ (ProbeAccHigh = TEST_REG_NACK /\ ProbeAccLow = TEST_REG_NACK) =>
              /\ call.path = "return_false"
              /\ call.ret = FALSE

C3_Witness ==
  /\ call.op = "init"
  /\ call.device = "device_auto"
  /\ ProbeHigh = DLM_WHO_ID
  /\ ProbeLow = TEST_REG_NACK
  /\ ProbeAccHigh = TEST_REG_NACK
  /\ ProbeAccLow = 39
  /\ _device = "device_DLH"
  /\ acc_address = NON_D_ACC_SA0_LOW_ADDRESS

\* C4: after init(device_D, sa0_auto): when the D identification byte is
\* answered at the unified strap-low address only, init has resolved
\* sa0_low with acc_address = mag_address = the strap-low address; and init
\* has returned false only when neither address answered that byte.
C4_DStrapFromProbes ==
  (call.op = "init" /\ call.device = "device_D" /\ call.sa0 = "sa0_auto") =>
    /\ (ProbeHigh # D_WHO_ID /\ ProbeLow = D_WHO_ID) =>
         ResolvedAs("device_D", "sa0_low", D_SA0_LOW_ADDRESS,
                    D_SA0_LOW_ADDRESS)
    /\ call.path = "return_false" =>
         (ProbeHigh # D_WHO_ID /\ ProbeLow # D_WHO_ID)

\* C5: init returns false exactly on the paths on which nothing was
\* resolved, and true on every path on which device, sa0, the addresses and
\* the layout were fixed.
C5_InitReturnsOutcome ==
  call.op = "init" =>
    /\ call.path = "return_false" => call.ret = FALSE
    /\ call.path = "end" => call.ret = TRUE

\* C6: with _device one of device_DLH, device_DLM, device_DLHC, readReg and
\* writeReg transact an accelerometer register (reg >= CTRL_REG1_A, not a
\* temperature register) on acc_address through readAccReg / writeAccReg, and
\* any other register on mag_address.
C6_RoutingBySubDevice ==
  (call.op \in {"readReg", "writeReg"}
     /\ _device \in {"device_DLH", "device_DLM", "device_DLHC"}) =>
    IF call.reg >= CTRL_REG1_A /\ call.reg \notin {TEMP_OUT_H_M, TEMP_OUT_L_M}
    THEN tx.addr = acc_address /\ tx.kind \in {"readAccReg", "writeAccReg"}
    ELSE tx.addr = mag_address /\ tx.kind \in {"readMagReg", "writeMagReg"}

\* the signed 16-bit value whose low byte is lo and whose high byte is hi
Signed16(hi, lo) ==
  IF hi >= 128 THEN (hi - 256) * 256 + lo ELSE hi * 256 + lo

\* C7: a completed readAcc of the burst (X_L, X_H, Y_L, Y_H, Z_L, Z_H) has
\* set each axis to the signed 16-bit little-endian value, unshifted on the
\* D, and to the floor of that value divided by 16, which lies in
\* -2048..2047, on every other variant.
C7_AccDecode ==
  (call.op = "readAcc" /\ call.path = "complete") =>
    \A i \in 1..3 :
      LET v == Signed16(burst[2 * i], burst[2 * i - 1])
      IN IF _device = "device_D"
         THEN a[i] = v
         ELSE a[i] = v \div 16 /\ a[i] \in -2048..2047

C7_Witness ==
  /\ call.op = "readAcc"
  /\ call.path = "complete"
  /\ _device = "device_DLHC"
  /\ burst[2] >= 128
  /\ burst[1] % 16 # 0
  /\ a[1] < 0

LowByte(v) == v % 256
HighByte(v) == (IF v < 0 THEN v + 65536 ELSE v) \div 256

\* the six bytes of (x, y, z) in the wire order of the variant
EncodeMag(device, v) ==
  CASE device = "device_D" ->
         <<LowByte(v[1]), HighByte(v[1]), LowByte(v[2]), HighByte(v[2]),
           LowByte(v[3]), HighByte(v[3])>>
    [] device = "device_DLH" ->
         <<HighByte(v[1]), LowByte(v[1]), HighByte(v[2]), LowByte(v[2]),
           HighByte(v[3]), LowByte(v[3])>>
    [] OTHER ->
         <<HighByte(v[1]), LowByte(v[1]), HighByte(v[3]), LowByte(v[3]),
           HighByte(v[2]), LowByte(v[2])>>

\* C8: a completed readMag leaves in m the signed 16-bit triple whose
\* encoding in the wire order of the variant is the burst that was read:
\* decoding inverts encoding on every variant.
C8_MagRoundTrip ==
  (call.op = "readMag" /\ call.path = "complete" /\ _device \in Variants) =>
    /\ \A i \in 1..3 : m[i] \in -32768..32767
    /\ EncodeMag(_device, m) = burst

C8_Witness ==
  /\ call.op = "readMag"
  /\ call.path = "complete"
  /\ _device = "device_DLM"
  /\ m[1] < 0
  /\ m[2] # m[3]
  /\ burst[3] # burst[5]

\* C9: a readAcc / readMag entered with io_timeout > 0 eventually returns,
\* with the timeout flag set unless the six bytes arrived.
C9_ReadReturns ==
  \A t \in Reads :
    (pc = t /\ io_timeout > 0) ~>
       (pc = "idle" /\ (did_timeout \/ call.path = "complete"))

\* C10: no int32_t expression of the integer stage of heading leaves
\* -2^31 .. 2^31 - 1: the midpoints, the offset magnetometer vector, the six
\* products and the three differences of the cross product.
C10_HeadingNoOverflow ==
  call.op = "heading" =>
    /\ \A i \in 1..3 : hd.mid[i] \in Int32 /\ hd.temp_m[i] \in Int32
    /\ \A i \in 1..6 : hd.prod[i] \in Int32
    /\ \A i \in 1..3 : ~hd.ovf[i]

====
